---------------------------- MODULE Spec2Model ----------------------------
(***************************************************************************)
(* Option-Price-Visualiser: the pricing core (BlackScholes, BinomialTree,  *)
(* ImpliedVolatility), the module-level code run at import, and the grid   *)
(* sweeps of main.py and plots/utility.py.                                 *)
(*                                                                         *)
(* Numbers.  The program computes in IEEE-754 doubles (Python float and    *)
(* numpy.float64).  The model keeps the structure of that arithmetic with  *)
(* a reduced precision and range: a finite value x is the integer          *)
(* round(x * SCALE), every operation rounds to nearest, a result whose     *)
(* magnitude exceeds MaxF overflows to +inf or -inf, a result below half a *)
(* unit underflows to 0, and the invalid operations (0/0, inf-inf, inf*0,  *)
(* log and sqrt of a negative number) give nan, as numpy gives (all numpy  *)
(* warnings are silenced by BlackScholes.py line 6).  Division of Python   *)
(* numbers by zero raises ZeroDivisionError instead (PyDivRaises).         *)
(***************************************************************************)
EXTENDS Integers, Sequences, FiniteSets, TLC

\* One unit is 1/SCALE: three decimals, so that the solver's bracket end
\* and floor 0.001 is one unit.
SCALE == 10 * 10 * 10

\* Largest finite magnitude, in units (2000.0): beyond it a result is inf.
MaxF == 2000000

----------------------------------------------------------------------------
(* Evaluation order *)

\* Op applied to operands that are evaluated once, before Op's body, as the
\* program evaluates the arguments of a call.
Once1(Op(_), a) == CHOOSE r \in {Op(x) : x \in {a}} : TRUE
Once2(Op(_, _), a, b) == CHOOSE r \in {Op(x, y) : x \in {a}, y \in {b}} : TRUE

----------------------------------------------------------------------------
(* Floating-point values *)

F(n)  == [k |-> "fin", v |-> n]
NaN   == [k |-> "nan", v |-> 0]
PInf  == [k |-> "inf", v |-> 1]
NInf  == [k |-> "inf", v |-> -1]

IsNaN(a) == a.k = "nan"
IsInf(a) == a.k = "inf"
IsFin(a) == a.k = "fin"

AbsI(n) == IF n < 0 THEN -n ELSE n
SgnI(n) == IF n < 0 THEN -1 ELSE IF n > 0 THEN 1 ELSE 0

\* n / d rounded to nearest, halves away from zero (d # 0).
RoundDiv(n, d) ==
    Once2(LAMBDA x, y : SgnI(x) * SgnI(y) * ((AbsI(x) + (AbsI(y) \div 2)) \div AbsI(y)),
          n, d)

Inf(s) == IF s < 0 THEN NInf ELSE PInf

\* An integer result in units, overflowing to an infinity.
Norm(n) ==
    Once1(LAMBDA x : IF x > MaxF THEN PInf ELSE IF x < -MaxF THEN NInf ELSE F(x), n)

\* Order key: the infinities lie beyond every finite value.
Key(a) == IF IsInf(a) THEN a.v * (MaxF + 1) ELSE a.v

FLt(a, b) == Once2(LAMBDA x, y : ~IsNaN(x) /\ ~IsNaN(y) /\ Key(x) < Key(y), a, b)
FLe(a, b) == Once2(LAMBDA x, y : ~IsNaN(x) /\ ~IsNaN(y) /\ Key(x) <= Key(y), a, b)
FGt(a, b) == FLt(b, a)
FGe(a, b) == FLe(b, a)
FEq(a, b) == Once2(LAMBDA x, y : ~IsNaN(x) /\ ~IsNaN(y) /\ Key(x) = Key(y), a, b)

FNeg(a) == Once1(LAMBDA x : IF IsNaN(x) THEN NaN ELSE [x EXCEPT !.v = -x.v], a)

FAbs(a) == Once1(LAMBDA x : IF IsNaN(x) THEN NaN ELSE [x EXCEPT !.v = AbsI(x.v)], a)

FAdd(a, b) ==
    Once2(LAMBDA x, y :
            IF IsNaN(x) \/ IsNaN(y) THEN NaN
            ELSE IF IsInf(x) /\ IsInf(y) THEN (IF x.v = y.v THEN x ELSE NaN)
            ELSE IF IsInf(x) THEN x
            ELSE IF IsInf(y) THEN y
            ELSE Norm(x.v + y.v),
          a, b)

FSub(a, b) == FAdd(a, FNeg(b))

FMul(a, b) ==
    Once2(LAMBDA x, y :
            IF IsNaN(x) \/ IsNaN(y) THEN NaN
            ELSE IF IsInf(x) \/ IsInf(y)
                 THEN (IF x.v = 0 \/ y.v = 0 THEN NaN ELSE Inf(SgnI(x.v) * SgnI(y.v)))
            ELSE IF x.v = 0 \/ y.v = 0 THEN F(0)
            ELSE IF AbsI(x.v) > (MaxF * SCALE) \div AbsI(y.v)
                 THEN Inf(SgnI(x.v) * SgnI(y.v))
            ELSE Norm(RoundDiv(x.v * y.v, SCALE)),
          a, b)

\* numpy.float64 division: x/0 is inf or nan, never an exception.
FDiv(a, b) ==
    Once2(LAMBDA x, y :
            IF IsNaN(x) \/ IsNaN(y) THEN NaN
            ELSE IF IsInf(x) THEN (IF IsInf(y) THEN NaN
                                   ELSE Inf(x.v * (IF y.v < 0 THEN -1 ELSE 1)))
            ELSE IF IsInf(y) THEN F(0)
            ELSE IF y.v = 0 THEN (IF x.v = 0 THEN NaN ELSE Inf(SgnI(x.v)))
            ELSE Norm(RoundDiv(x.v * SCALE, y.v)),
          a, b)

\* Python's builtin max(x, y): y when y > x, else x (so max(0, nan) is 0).
PyMax(x, y) == Once2(LAMBDA a, b : IF FGt(b, a) THEN b ELSE a, x, y)

----------------------------------------------------------------------------
(* numpy and scipy.stats functions, in units *)

RECURSIVE ExpTaylor(_, _, _, _)
\* sum_{i >= k} of the series of e^f given the previous term, 0 <= f < SCALE.
ExpTaylor(f, k, term, acc) ==
    IF term = 0 THEN acc
    ELSE Once1(LAMBDA t : ExpTaylor(f, k + 1, t, acc + t),
               RoundDiv(term * f, k * SCALE))

\* e^1 in units.
EulerE == ExpTaylor(SCALE, 1, SCALE, SCALE)

RECURSIVE ExpNat(_, _)
\* acc * e^n for a natural n, stopping once beyond MaxF.
ExpNat(n, acc) ==
    Once2(LAMBDA m, a :
            IF m = 0 THEN a
            ELSE IF a > (MaxF * SCALE) \div EulerE THEN MaxF + 1
            ELSE ExpNat(m - 1, RoundDiv(a * EulerE, SCALE)),
          n, acc)

\* e^(x/SCALE) in units for x >= 0; a value above MaxF stands for overflow.
ExpPos(x) ==
    Once1(LAMBDA y :
            IF y \div SCALE > 8 THEN MaxF + 1
            ELSE ExpNat(y \div SCALE, ExpTaylor(y % SCALE, 1, SCALE, SCALE)),
          x)

\* 1 / e for e = ExpPos(x): e^(-x/SCALE), underflowing to 0.
ExpRecip(e) ==
    Once1(LAMBDA y : IF y > MaxF THEN F(0) ELSE F(RoundDiv(SCALE * SCALE, y)), e)

\* numpy.exp
FExp(a) ==
    Once1(LAMBDA x :
            IF IsNaN(x) THEN NaN
            ELSE IF IsInf(x) THEN (IF x.v > 0 THEN PInf ELSE F(0))
            ELSE IF x.v >= 0 THEN Norm(ExpPos(x.v))
            ELSE ExpRecip(ExpPos(-x.v)),
          a)

RECURSIVE SqrtSearch(_, _, _)
\* The largest s in lo..hi with s*s <= m.
SqrtSearch(m, lo, hi) ==
    IF lo >= hi THEN lo
    ELSE Once1(LAMBDA mid : IF mid * mid <= m THEN SqrtSearch(m, mid, hi)
                            ELSE SqrtSearch(m, lo, mid - 1),
               (lo + hi + 1) \div 2)

\* round(sqrt(x/SCALE) * SCALE) for x >= 0.
SqrtI(x) ==
    Once2(LAMBDA m, s : IF m - s * s > s THEN s + 1 ELSE s,
          x * SCALE, SqrtSearch(x * SCALE, 0, 46340))

\* numpy.sqrt
FSqrt(a) ==
    Once1(LAMBDA x :
            IF IsNaN(x) THEN NaN
            ELSE IF IsInf(x) THEN (IF x.v > 0 THEN PInf ELSE NaN)
            ELSE IF x.v < 0 THEN NaN
            ELSE F(SqrtI(x.v)),
          a)

\* ln 2 in units.
Ln2 == RoundDiv(693147 * SCALE, 1000000)

\* 2 * atanh(z) by its series, for 0 <= z <= SCALE/3.
Atanh2(z) ==
    LET z2 == RoundDiv(z * z, SCALE)
        z3 == RoundDiv(z * z2, SCALE)
        z5 == RoundDiv(z3 * z2, SCALE)
        z7 == RoundDiv(z5 * z2, SCALE)
    IN  2 * (z + RoundDiv(z3, 3) + RoundDiv(z5, 5) + RoundDiv(z7, 7))

RECURSIVE LnI(_)
\* round(ln(x/SCALE) * SCALE) for x > 0: reduce to [1, 2), then the series.
LnI(x) ==
    Once1(LAMBDA y :
            IF y >= 2 * SCALE THEN Ln2 + LnI(RoundDiv(y, 2))
            ELSE IF y < SCALE THEN LnI(2 * y) - Ln2
            ELSE Once1(Atanh2, RoundDiv((y - SCALE) * SCALE, y + SCALE)),
          x)

\* numpy.log
FLog(a) ==
    Once1(LAMBDA x :
            IF IsNaN(x) THEN NaN
            ELSE IF IsInf(x) THEN (IF x.v > 0 THEN PInf ELSE NaN)
            ELSE IF x.v < 0 THEN NaN
            ELSE IF x.v = 0 THEN NInf
            ELSE F(LnI(x.v)),
          a)

\* x ** k for a natural k, by repeated multiplication; x ** 0 is 1 for
\* every x, nan included.
RECURSIVE FPow(_, _)
FPow(x, k) == IF k = 0 THEN F(SCALE) ELSE FMul(FPow(x, k - 1), x)

\* 1 / sqrt(2 pi) in units.
InvSqrt2Pi == RoundDiv(398942 * SCALE, 1000000)

\* scipy.stats.norm.pdf: exp(-x^2 / 2) / sqrt(2 pi)
FPdf(x) ==
    FMul(FExp(FNeg(FDiv(FMul(x, x), F(2 * SCALE)))), F(InvSqrt2Pi))

\* The tail 1 - Phi(x) for a finite x >= 0 (Abramowitz and Stegun 26.2.17):
\* pdf(x) * (b1 t + b2 t^2 + b3 t^3 + b4 t^4 + b5 t^5), t = 1/(1 + p x).
CdfTail(x) ==
    LET c(n) == RoundDiv(n * SCALE, 1000000)
        t  == RoundDiv(SCALE * SCALE, SCALE + RoundDiv(c(231642) * x, SCALE))
        h5 == c(1330274)
        h4 == c(-1821256) + RoundDiv(h5 * t, SCALE)
        h3 == c(1781478) + RoundDiv(h4 * t, SCALE)
        h2 == c(-356564) + RoundDiv(h3 * t, SCALE)
        h1 == c(319382) + RoundDiv(h2 * t, SCALE)
        poly == RoundDiv(h1 * t, SCALE)
    IN  Once1(LAMBDA tail : IF tail > SCALE \div 2 THEN SCALE \div 2
                            ELSE IF tail < 0 THEN 0 ELSE tail,
              RoundDiv(FPdf(F(x)).v * poly, SCALE))

\* scipy.stats.norm.cdf, with cdf(-x) = 1 - cdf(x).
FCdf(a) ==
    Once1(LAMBDA x :
            IF IsNaN(x) THEN NaN
            ELSE IF IsInf(x) THEN (IF x.v > 0 THEN F(SCALE) ELSE F(0))
            ELSE IF x.v >= 0 THEN F(SCALE - Once1(CdfTail, x.v))
            ELSE F(Once1(CdfTail, -x.v)),
          a)

----------------------------------------------------------------------------
(* models/BlackScholes.py *)

\* A decimal literal: Dec(5, 100) is 0.05.
Dec(n, d) == F(RoundDiv(n * SCALE, d))

NoObj == [kind |-> "none"]
NoVal == [k |-> "none", v |-> 0]

\* S / K on the caller's Python numbers raises ZeroDivisionError when K is 0
\* (numpy.float64 operands give inf or nan instead, see FDiv).
PyDivRaises(a, b) == IsFin(b) /\ b.v = 0

\* BlackScholes.__init__ when it does not raise: the stored parameters,
\* d1 (line 28) and d2 (line 29).
BlackScholes(S, K, T, r, sigma, q) ==
    Once1(LAMBDA d1 :
            [kind |-> "BlackScholes", S |-> S, K |-> K, T |-> T, r |-> r,
             sigma |-> sigma, q |-> q, d1 |-> d1,
             d2 |-> FSub(d1, FMul(sigma, FSqrt(T)))],
          FDiv(FAdd(FLog(FDiv(S, K)),
                    FMul(FAdd(FSub(r, q), FMul(Dec(5, 10), FMul(sigma, sigma))), T)),
               FMul(sigma, FSqrt(T))))

call_price(bs) ==
    FSub(FMul(FMul(bs.S, FExp(FMul(FNeg(bs.q), bs.T))), FCdf(bs.d1)),
         FMul(FMul(bs.K, FExp(FMul(FNeg(bs.r), bs.T))), FCdf(bs.d2)))

put_price(bs) ==
    FSub(FMul(FMul(bs.K, FExp(FMul(FNeg(bs.r), bs.T))), FCdf(FNeg(bs.d2))),
         FMul(FMul(bs.S, FExp(FMul(FNeg(bs.q), bs.T))), FCdf(FNeg(bs.d1))))

\* Variant of delta that compares the tag without regard to case: 'Call'
\* gives the call's delta.  C13 does not hold of it.
delta_folded(bs, option_type) ==
    IF option_type \in {"call", "Call"}
    THEN FMul(FExp(FMul(FNeg(bs.q), bs.T)), FCdf(bs.d1))
    ELSE FMul(FExp(FMul(FNeg(bs.q), bs.T)), FSub(FCdf(bs.d1), F(SCALE)))

delta(bs, option_type) ==
    IF option_type = "call"
    THEN FMul(FExp(FMul(FNeg(bs.q), bs.T)), FCdf(bs.d1))
    ELSE FMul(FExp(FMul(FNeg(bs.q), bs.T)), FSub(FCdf(bs.d1), F(SCALE)))

gamma(bs) ==
    FDiv(FMul(FExp(FMul(FNeg(bs.q), bs.T)), FPdf(bs.d1)),
         FMul(FMul(bs.S, bs.sigma), FSqrt(bs.T)))

\* The sensitivity per 1% of volatility: the raw vega divided by 100.
vega(bs) ==
    FDiv(FMul(FMul(FMul(bs.S, FExp(FMul(FNeg(bs.q), bs.T))), FPdf(bs.d1)), FSqrt(bs.T)),
         F(100 * SCALE))

theta(bs, option_type) ==
    LET c == option_type = "call"
        term1 == FDiv(FNeg(FMul(FMul(FMul(bs.S, FExp(FMul(FNeg(bs.q), bs.T))),
                                     FPdf(bs.d1)), bs.sigma)),
                      FMul(F(2 * SCALE), FSqrt(bs.T)))
        term2 == FMul(FMul(FMul(bs.q, bs.S), FExp(FMul(FNeg(bs.q), bs.T))),
                      FCdf(IF c THEN bs.d1 ELSE FNeg(bs.d1)))
        term3 == FMul(FMul(FMul(bs.r, bs.K), FExp(FMul(FNeg(bs.r), bs.T))),
                      FCdf(IF c THEN bs.d2 ELSE FNeg(bs.d2)))
    IN  IF c THEN FDiv(FSub(FSub(term1, term2), term3), F(365 * SCALE))
        ELSE FDiv(FAdd(FAdd(term1, term2), term3), F(365 * SCALE))

rho(bs, option_type) ==
    IF option_type = "call"
    THEN FDiv(FMul(FMul(FMul(bs.K, bs.T), FExp(FMul(FNeg(bs.r), bs.T))), FCdf(bs.d2)),
              F(100 * SCALE))
    ELSE FDiv(FMul(FMul(FMul(FNeg(bs.K), bs.T), FExp(FMul(FNeg(bs.r), bs.T))),
                   FCdf(FNeg(bs.d2))),
              F(100 * SCALE))

----------------------------------------------------------------------------
(* models/BinomialTree.py *)

\* BinomialTree.__init__ when it does not raise (n # 0): the stored
\* parameters and the tree parameters dt, u, d, p, discount.
BinomialTree(S, K, T, r, sigma, n, q, option_type, exercise_type) ==
    LET dt == FDiv(T, F(n * SCALE))
        u  == FExp(FMul(sigma, FSqrt(dt)))
        d  == FDiv(F(SCALE), u)
        p  == FDiv(FSub(FExp(FMul(FSub(r, q), dt)), d), FSub(u, d))
    IN  [kind |-> "BinomialTree", S |-> S, K |-> K, T |-> T, r |-> r,
         sigma |-> sigma, n |-> n, q |-> q, option_type |-> option_type,
         exercise_type |-> exercise_type,
         dt |-> dt, u |-> u, d |-> d, p |-> p,
         discount |-> FExp(FMul(FNeg(r), dt))]

\* S * u ** (j - i) * d ** i: the underlying at step j after i down moves.
NodePrice(bt, j, i) == FMul(FMul(bt.S, FPow(bt.u, j - i)), FPow(bt.d, i))

\* max(0, price - K) for 'call', max(0, K - price) for anything else.
Payoff(bt, price) ==
    IF bt.option_type = "call" THEN PyMax(F(0), FSub(price, bt.K))
    ELSE PyMax(F(0), FSub(bt.K, price))

\* price(), lines 41-52: the option values at maturity, V[0..n].
TerminalValues(bt) == [i \in 0 .. bt.n |-> Payoff(bt, NodePrice(bt, bt.n, i))]

\* price(), line 58: the discounted expectation over the two children.
Continuation(bt, W, i) ==
    FMul(bt.discount,
         FAdd(FMul(bt.p, W[i]), FMul(FSub(F(SCALE), bt.p), W[i + 1])))

\* price(), lines 57-67: the value written to V[i] in step j.
NodeValue(bt, W, j, i) ==
    LET cont == Continuation(bt, W, i)
    IN  IF bt.exercise_type = "american"
        THEN PyMax(cont, Payoff(bt, NodePrice(bt, j, i)))
        ELSE cont

----------------------------------------------------------------------------
(* models/ImpliedVolatility.py *)

\* Python's None.
None == [k |-> "None", v |-> 0]

\* ImpliedVolatility.__init__: the query is stored as given.
ImpliedVolatility(S, K, T, r, market_price, option_type, q) ==
    [kind |-> "ImpliedVolatility", S |-> S, K |-> K, T |-> T, r |-> r,
     market_price |-> market_price, option_type |-> option_type, q |-> q]

\* The theoretical price at sigma: call_price() for 'call', put_price() for
\* anything else (lines 27-32 and 48-53).
TheoreticalPrice(o, sigma) ==
    Once1(LAMBDA b : IF o.option_type = "call" THEN call_price(b) ELSE put_price(b),
          BlackScholes(o.S, o.K, o.T, o.r, sigma, o.q))

\* calculate_iv's objective(sigma), lines 26-33.
Objective(o, sigma) == FSub(TheoreticalPrice(o, sigma), o.market_price)

\* The ends of the bracket handed to brentq, line 37.
BracketLo == Dec(1, 1000)
BracketHi == Dec(5, 1)

SameStrictSign(x, y) == (FGt(x, F(0)) /\ FGt(y, F(0))) \/ (FLt(x, F(0)) /\ FLt(y, F(0)))

RECURSIVE Bisect(_, _, _, _, _)
\* A sign change of the objective between lo and hi (in units, with flo and
\* fhi the objective there) narrowed to two adjacent values.
Bisect(o, lo, hi, flo, fhi) ==
    IF hi - lo <= 1
    THEN [err |-> "none", x |-> IF FLe(FAbs(flo), FAbs(fhi)) THEN F(lo) ELSE F(hi)]
    ELSE Once2(LAMBDA mid, fm :
                 IF IsNaN(fm) THEN [err |-> "ValueError", x |-> None]
                 ELSE IF FEq(fm, F(0)) THEN [err |-> "none", x |-> F(mid)]
                 ELSE IF SameStrictSign(fm, flo) THEN Bisect(o, mid, hi, fm, fhi)
                 ELSE Bisect(o, lo, mid, flo, fm),
               (lo + hi) \div 2, Objective(o, F((lo + hi) \div 2)))

\* scipy.optimize.brentq(objective, a, b) as its documentation states it:
\* ValueError when f(a) and f(b) have the same sign (or f is nan); an end
\* of the bracket that is a root; otherwise a point of [a, b] at which f
\* is zero or changes sign within xtol, which is below one unit here.
Brentq(o, a, b) ==
    Once2(LAMBDA fa, fb :
            IF IsNaN(fa) \/ IsNaN(fb) THEN [err |-> "ValueError", x |-> None]
            ELSE IF SameStrictSign(fa, fb) THEN [err |-> "ValueError", x |-> None]
            ELSE IF FEq(fa, F(0)) THEN [err |-> "none", x |-> a]
            ELSE IF FEq(fb, F(0)) THEN [err |-> "none", x |-> b]
            ELSE Bisect(o, a.v, b.v, fa, fb),
          Objective(o, a), Objective(o, b))

\* Variant of calculate_iv without the except clause: brentq's ValueError
\* reaches the caller.  C4 does not hold of it.
calculate_iv_uncaught(o) ==
    IF PyDivRaises(o.S, o.K) THEN [err |-> "ZeroDivisionError", ret |-> NoVal]
    ELSE Once1(LAMBDA root :
                 IF root.err = "ValueError" THEN [err |-> "ValueError", ret |-> NoVal]
                 ELSE [err |-> "none", ret |-> root.x],
               Brentq(o, BracketLo, BracketHi))

\* calculate_iv, lines 25-41: what reaches the caller, an exception or a
\* return value.  brentq's ValueError is caught and None returned (lines
\* 39-41); the ZeroDivisionError of S/K in BlackScholes.__init__ (K = 0) is
\* not caught.
calculate_iv(o) ==
    IF PyDivRaises(o.S, o.K) THEN [err |-> "ZeroDivisionError", ret |-> NoVal]
    ELSE Once1(LAMBDA root :
                 IF root.err = "ValueError" THEN [err |-> "none", ret |-> None]
                 ELSE [err |-> "none", ret |-> root.x],
               Brentq(o, BracketLo, BracketHi))

\* vega_newton, lines 65-69: the Newton update, floored at 0.001.
NewtonStep(sigma, price_diff, veg) ==
    Once1(LAMBDA next : IF FLe(next, F(0)) THEN Dec(1, 1000) ELSE next,
          FSub(sigma, FDiv(price_diff, veg)))

\* Variant of the pass whose convergence test drops the abs(): a price far
\* below the market price counts as converged.  C3 does not hold of it.
NewtonPass_signed(o, sigma, tolerance) ==
    Once1(LAMBDA b :
      Once2(LAMBDA price_diff, veg :
              IF FLt(price_diff, tolerance)
              THEN [exit |-> "converged", sigma |-> sigma]
              ELSE IF FEq(veg, F(0)) THEN [exit |-> "zero_vega", sigma |-> sigma]
              ELSE [exit |-> "none", sigma |-> NewtonStep(sigma, price_diff, veg)],
            FSub(IF o.option_type = "call" THEN call_price(b) ELSE put_price(b),
                 o.market_price),
            FMul(vega(b), F(100 * SCALE))),
      BlackScholes(o.S, o.K, o.T, o.r, sigma, o.q))

\* Variant of the pass that applies the update before the stopping tests
\* and returns the updated iterate.  C8 does not hold of it.
NewtonPass_late(o, sigma, tolerance) ==
    Once1(LAMBDA b :
      Once2(LAMBDA price_diff, veg :
              IF FLt(FAbs(price_diff), tolerance)
              THEN [exit |-> "converged", sigma |-> NewtonStep(sigma, price_diff, veg)]
              ELSE IF FEq(veg, F(0)) THEN [exit |-> "zero_vega", sigma |-> sigma]
              ELSE [exit |-> "none", sigma |-> NewtonStep(sigma, price_diff, veg)],
            FSub(IF o.option_type = "call" THEN call_price(b) ELSE put_price(b),
                 o.market_price),
            FMul(vega(b), F(100 * SCALE))),
      BlackScholes(o.S, o.K, o.T, o.r, sigma, o.q))

\* vega_newton, lines 47-69: one pass of the loop body from the iterate
\* sigma: return it (line 60), break and return it (lines 63, 71), or go on
\* with the updated iterate.
NewtonPass(o, sigma, tolerance) ==
    Once1(LAMBDA b :
      Once2(LAMBDA price_diff, veg :
              IF FLt(FAbs(price_diff), tolerance)
              THEN [exit |-> "converged", sigma |-> sigma]
              ELSE IF FEq(veg, F(0)) THEN [exit |-> "zero_vega", sigma |-> sigma]
              ELSE [exit |-> "none", sigma |-> NewtonStep(sigma, price_diff, veg)],
            FSub(IF o.option_type = "call" THEN call_price(b) ELSE put_price(b),
                 o.market_price),
            FMul(vega(b), F(100 * SCALE))),
      BlackScholes(o.S, o.K, o.T, o.r, sigma, o.q))

----------------------------------------------------------------------------
(* State *)

VARIABLES
    contract,   \* the caller's lattice parameters (main.py sidebar), or NoObj
    bt,         \* the BinomialTree object under construction or pricing
    btpc,       \* "idle", "built", "loop", "exit", "done", "raised"
    btErr,      \* the exception __init__ raised, or "none"
    V,          \* price(): the working array V[0..n]
    bj, bi,     \* price(): the loop indices j and i
    btResult,   \* what price() returned, or NoVal
    prices,     \* per exercise type, the price returned for this contract
    bs,         \* the BlackScholes object, or NoObj
    bspc,       \* "idle", "built", "returned", "raised"
    bsErr,      \* the exception __init__ raised, or "none"
    bsCall,     \* the method called on bs
    bsResult,   \* what that method returned, or NoVal
    bsPrices,   \* what call_price() and put_price() last returned on bs
    iv,         \* the ImpliedVolatility object (the IV query), or NoObj
    ivpc,       \* "idle", "built", "loop", "returned", "raised"
    ivCall,     \* the method called on iv, or "none"
    ivErr,      \* the exception that method raised to the caller, or "none"
    ivResult,   \* what calculate_iv / vega_newton returned: a value or None
    nwArgs,     \* vega_newton's arguments sigma_initial, max_iterations, tolerance
    nwSigma,    \* vega_newton: the local sigma
    nwI,        \* vega_newton: the loop index i
    nwEvals,    \* vega_newton: BlackScholes objects built so far in this call
    nwExit,     \* how vega_newton left its loop, or "none"
    sysModules, \* the interpreter's sys.modules: repository modules loaded
    frames,     \* the import stack: the module bodies in execution, innermost last
    constructed,\* pricer and solver objects built since the import began
    computed,   \* pricing and implied-volatility calls made since the import began
    printed,    \* print() calls made since the import began
    sweep,      \* the grid sweep's arguments (kind, fixed parameters, axes), or NoObj
    grid,       \* the result array, cell <<i, j>> |-> value (np.zeros at first)
    gi, gj,     \* the sweep's loop indices i and j
    gpc,        \* "idle", "sweep", "done", "raised"
    written     \* the cells the sweep has assigned

btVars == <<contract, bt, btpc, btErr, V, bj, bi, btResult, prices>>
bsVars == <<bs, bspc, bsErr, bsCall, bsResult, bsPrices>>
ivVars == <<iv, ivpc, ivCall, ivErr, ivResult, nwArgs, nwSigma, nwI, nwEvals, nwExit>>
impVars == <<sysModules, frames, constructed, computed, printed>>
gridVars == <<sweep, grid, gi, gj, gpc, written>>
vars == <<btVars, bsVars, ivVars, impVars, gridVars>>

\* The caller is single-threaded: it works with one component at a time.
BTUntouched == contract = NoObj
BSUntouched == bspc = "idle"
IVUntouched == ivpc = "idle"

ExerciseTypes == {"european", "american"}
OptionTypes == {"call", "put"}

\* The tags a caller can pass: any string.  Besides the recognised ones, a
\* capitalised one (main.py lowers the sidebar's 'Call' and 'American' before
\* passing them on, lines 44 and 143; another caller may not) and a
\* misspelling.
OptionTags == OptionTypes \cup {"Call", "cal"}
ExerciseTags == ExerciseTypes \cup {"American"}

NoPrices == [e \in ExerciseTags |-> NoVal]
PriceMethods == {"call_price", "put_price"}
NoQuotes == [m \in PriceMethods |-> NoVal]

Init ==
    /\ contract = NoObj
    /\ bt = NoObj
    /\ btpc = "idle"
    /\ btErr = "none"
    /\ V = <<>>
    /\ bj = 0
    /\ bi = 0
    /\ btResult = NoVal
    /\ prices = NoPrices
    /\ bs = NoObj
    /\ bspc = "idle"
    /\ bsErr = "none"
    /\ bsCall = "none"
    /\ bsResult = NoVal
    /\ bsPrices = NoQuotes
    /\ iv = NoObj
    /\ ivpc = "idle"
    /\ ivCall = "none"
    /\ ivErr = "none"
    /\ ivResult = NoVal
    /\ nwArgs = NoObj
    /\ nwSigma = NoVal
    /\ nwI = 0
    /\ nwEvals = 0
    /\ nwExit = "none"
    /\ sysModules = {}
    /\ frames = <<>>
    /\ constructed = 0
    /\ computed = 0
    /\ printed = 0
    /\ sweep = NoObj
    /\ grid = <<>>
    /\ gi = 0
    /\ gj = 0
    /\ gpc = "idle"
    /\ written = {}

----------------------------------------------------------------------------
(* The lattice pricer *)

\* Largest step count n the caller passes.
MaxSteps == 3

\* Contracts with S, K, T, sigma > 0; the small sigma with the large r - q
\* puts the risk-neutral probability outside [0, 1].
ValidLattice ==
    [S : {Dec(100, 1), Dec(110, 1)}, K : {Dec(100, 1)}, T : {Dec(1, 1), Dec(2, 1)},
     r : {Dec(5, 100), Dec(15, 100)}, sigma : {Dec(1, 100), Dec(2, 10)},
     n : 0 .. MaxSteps, q : {Dec(0, 1), Dec(5, 100)}, option_type : OptionTypes]

BaseLattice ==
    [S |-> Dec(100, 1), K |-> Dec(100, 1), T |-> Dec(1, 1), r |-> Dec(5, 100),
     sigma |-> Dec(2, 10), n |-> 2, q |-> Dec(0, 1), option_type |-> "call"]

\* Contracts with one of S, K, T, sigma zero or negative.
InvalidLattice ==
    LET b(ot) == [BaseLattice EXCEPT !.option_type = ot]
    IN  UNION {
          { [b(ot) EXCEPT !.S = x] : x \in {Dec(0, 1), Dec(-100, 1)} }
          \cup { [b(ot) EXCEPT !.K = x] : x \in {Dec(0, 1), Dec(-100, 1)} }
          \cup { [b(ot) EXCEPT !.T = x] : x \in {Dec(0, 1), Dec(-1, 1)} }
          \cup { [b(ot) EXCEPT !.sigma = x] : x \in {Dec(0, 1), Dec(-2, 10)} }
          : ot \in OptionTypes }

\* The base contract, in or at the money, with an option_type tag that is
\* neither 'call' nor 'put'.
UnrecognisedLattice ==
    { [BaseLattice EXCEPT !.S = x, !.option_type = t] :
        x \in {Dec(100, 1), Dec(110, 1)}, t \in OptionTags \ OptionTypes }

\* The caller chooses the parameters it will price (main.py lines 17-32,
\* BinomialTree.py lines 83-97: the same contract under both exercise types).
BT_Contract ==
    /\ BSUntouched /\ IVUntouched
    /\ btpc \in {"idle", "done", "raised"}
    /\ \E c \in ValidLattice \cup InvalidLattice \cup UnrecognisedLattice : contract' = c
    /\ bt' = NoObj
    /\ btpc' = "idle"
    /\ btErr' = "none"
    /\ V' = <<>>
    /\ bj' = 0
    /\ bi' = 0
    /\ btResult' = NoVal
    /\ prices' = NoPrices
    /\ UNCHANGED <<bsVars, ivVars, impVars, gridVars>>

\* BinomialTree.__init__: no parameter is checked; T / n raises
\* ZeroDivisionError for n = 0 (line 33, Python numbers).
BT_Init(exercise_type) ==
    /\ contract # NoObj
    /\ btpc \in {"idle", "done", "raised"}
    /\ IF contract.n = 0
       THEN /\ btpc' = "raised"
            /\ btErr' = "ZeroDivisionError"
            /\ bt' = NoObj
       ELSE /\ btpc' = "built"
            /\ btErr' = "none"
            /\ bt' = BinomialTree(contract.S, contract.K, contract.T, contract.r,
                                  contract.sigma, contract.n, contract.q,
                                  contract.option_type, exercise_type)
    /\ V' = <<>>
    /\ bj' = 0
    /\ bi' = 0
    /\ btResult' = NoVal
    /\ UNCHANGED <<contract, prices>>
    /\ UNCHANGED <<bsVars, ivVars, impVars, gridVars>>

\* price(), lines 41-55: terminal values, then the first step j = n - 1.
BT_Terminal ==
    /\ btpc = "built"
    /\ V' = TerminalValues(bt)
    /\ bj' = bt.n - 1
    /\ bi' = 0
    /\ btpc' = IF bt.n - 1 >= 0 THEN "loop" ELSE "exit"
    /\ UNCHANGED <<contract, bt, btErr, btResult, prices>>
    /\ UNCHANGED <<bsVars, ivVars, impVars, gridVars>>

\* Variant of the pass whose inner loop visits the nodes of a step in
\* descending order, i = j down to 0: V[i + 1] is read after it was
\* overwritten in the same step.  C12 does not hold of it.
BT_Step_descending ==
    /\ btpc = "loop"
    /\ V' = [V EXCEPT ![bj - bi] = NodeValue(bt, V, bj, bj - bi)]
    /\ IF bi < bj
       THEN /\ bi' = bi + 1
            /\ bj' = bj
            /\ btpc' = "loop"
       ELSE /\ bi' = 0
            /\ bj' = bj - 1
            /\ btpc' = IF bj - 1 >= 0 THEN "loop" ELSE "exit"
    /\ UNCHANGED <<contract, bt, btErr, btResult, prices>>
    /\ UNCHANGED <<bsVars, ivVars, impVars, gridVars>>

\* price(), lines 56-67: one pass of the inner loop writes V[i] in place,
\* then i, j advance (i ascending to j, j descending to 0).
BT_Step ==
    /\ btpc = "loop"
    /\ V' = [V EXCEPT ![bi] = NodeValue(bt, V, bj, bi)]
    /\ IF bi < bj
       THEN /\ bi' = bi + 1
            /\ bj' = bj
            /\ btpc' = "loop"
       ELSE /\ bi' = 0
            /\ bj' = bj - 1
            /\ btpc' = IF bj - 1 >= 0 THEN "loop" ELSE "exit"
    /\ UNCHANGED <<contract, bt, btErr, btResult, prices>>
    /\ UNCHANGED <<bsVars, ivVars, impVars, gridVars>>

\* price(), line 69: return V[0].
BT_Return ==
    /\ btpc = "exit"
    /\ btResult' = V[0]
    /\ prices' = [prices EXCEPT ![bt.exercise_type] = V[0]]
    /\ btpc' = "done"
    /\ UNCHANGED <<contract, bt, btErr, V, bj, bi>>
    /\ UNCHANGED <<bsVars, ivVars, impVars, gridVars>>

NextBT ==
    \/ BT_Contract
    \/ \E e \in ExerciseTags : BT_Init(e)
    \/ BT_Terminal
    \/ BT_Step
    \/ BT_Return

SpecBT == Init /\ [][NextBT]_vars

----------------------------------------------------------------------------
(* The analytic pricer *)

\* Parameter sets with S, K, T, sigma > 0 and q >= 0; the rate is a usual
\* one or far below zero, where e^(-rT) leaves the range of a double.
ValidAnalytic ==
    [S : {Dec(100, 1), Dec(110, 1)}, K : {Dec(100, 1), Dec(90, 1)},
     T : {Dec(1, 1), Dec(2, 1)}, r : {Dec(5, 100), Dec(-800, 1)},
     sigma : {Dec(2, 10), Dec(5, 10)}, q : {Dec(0, 1), Dec(5, 100)}]

BaseAnalytic ==
    [S |-> Dec(100, 1), K |-> Dec(100, 1), T |-> Dec(1, 1), r |-> Dec(5, 100),
     sigma |-> Dec(2, 10), q |-> Dec(0, 1)]

\* Parameter sets with one of S, K, T, sigma zero or negative.
InvalidAnalytic ==
    { [BaseAnalytic EXCEPT !.S = x] : x \in {Dec(0, 1), Dec(-100, 1)} }
    \cup { [BaseAnalytic EXCEPT !.K = x] : x \in {Dec(0, 1), Dec(-100, 1)} }
    \cup { [BaseAnalytic EXCEPT !.T = x] : x \in {Dec(0, 1), Dec(-1, 1)} }
    \cup { [BaseAnalytic EXCEPT !.sigma = x] : x \in {Dec(0, 1), Dec(-2, 10)} }

\* BlackScholes.__init__ on the caller's Python numbers: no parameter is
\* checked; S/K raises ZeroDivisionError for K = 0 (line 28).
BS_Init ==
    /\ BTUntouched /\ IVUntouched
    /\ \E c \in ValidAnalytic \cup InvalidAnalytic :
         IF PyDivRaises(c.S, c.K)
         THEN /\ bs' = NoObj
              /\ bspc' = "raised"
              /\ bsErr' = "ZeroDivisionError"
         ELSE /\ bs' = BlackScholes(c.S, c.K, c.T, c.r, c.sigma, c.q)
              /\ bspc' = "built"
              /\ bsErr' = "none"
    /\ bsCall' = "none"
    /\ bsResult' = NoVal
    /\ bsPrices' = NoQuotes
    /\ UNCHANGED <<btVars, ivVars, impVars, gridVars>>

\* What method m returns on the object bs (option_type for delta, theta, rho).
Method(b, m, option_type) ==
    CASE m = "call_price" -> call_price(b)
      [] m = "put_price" -> put_price(b)
      [] m = "delta" -> delta(b, option_type)
      [] m = "gamma" -> gamma(b)
      [] m = "vega" -> vega(b)
      [] m = "theta" -> theta(b, option_type)
      [] m = "rho" -> rho(b, option_type)

Methods == {"call_price", "put_price", "delta", "gamma", "vega", "theta", "rho"}

\* A price or Greek is read from the object.
BS_Call ==
    /\ bspc \in {"built", "returned"}
    /\ \E m \in Methods, ot \in OptionTags :
         /\ m \notin {"delta", "theta", "rho"} => ot = "call"
         /\ bsCall' = <<m, ot>>
         /\ \E out \in {Method(bs, m, ot)} :
              /\ bsResult' = out
              /\ bsPrices' = IF m \in PriceMethods THEN [bsPrices EXCEPT ![m] = out]
                             ELSE bsPrices
    /\ bspc' = "returned"
    /\ UNCHANGED <<bs, bsErr>>
    /\ UNCHANGED <<btVars, ivVars, impVars, gridVars>>

NextBS == BS_Init \/ BS_Call

SpecBS == Init /\ [][NextBS]_vars

\* Both pricers, one at a time.
NextPricers == NextBT \/ NextBS

SpecPricers == Init /\ [][NextPricers]_vars

----------------------------------------------------------------------------
(* The implied-volatility solver *)

\* Largest max_iterations the caller passes to vega_newton.
MaxIter == 3

\* Queries with S, K, T > 0.  The market prices: attainable ones, one below
\* the least price of the bracket, one above the greatest.
Queries ==
    [S : {Dec(100, 1)}, K : {Dec(100, 1), Dec(120, 1)}, T : {Dec(1, 1)},
     r : {Dec(5, 100)}, market_price : {Dec(1045, 100), Dec(3, 1), Dec(25, 1), Dec(300, 1)},
     option_type : OptionTypes, q : {Dec(0, 1)}]
    \cup
    [S : {Dec(100, 1)}, K : {Dec(0, 1)}, T : {Dec(1, 1)},
     r : {Dec(5, 100)}, market_price : {Dec(1045, 100)},
     option_type : {"call"}, q : {Dec(0, 1)}]
    \cup
    [S : {Dec(100, 1)}, K : {Dec(100, 1)}, T : {Dec(1, 1)},
     r : {Dec(5, 100)}, market_price : {Dec(1045, 100), Dec(3, 1)},
     option_type : OptionTags \ OptionTypes, q : {Dec(0, 1)}]

\* vega_newton's arguments.  From the guess 0.038 the first update of a far
\* out-of-the-money query divides by a vega of one tenth.
NewtonArgs ==
    [sigma_initial : {Dec(2, 10), Dec(5, 100), Dec(38, 1000)}, max_iterations : 0 .. MaxIter,
     tolerance : {Dec(1, 100), Dec(5, 10)}]

\* ImpliedVolatility(...): a query is built (lines 6-23).
IV_Init ==
    /\ BTUntouched /\ BSUntouched
    /\ ivpc \in {"idle", "built", "returned", "raised"}
    /\ \E c \in Queries :
         iv' = ImpliedVolatility(c.S, c.K, c.T, c.r, c.market_price, c.option_type, c.q)
    /\ ivpc' = "built"
    /\ ivCall' = "none"
    /\ ivErr' = "none"
    /\ ivResult' = NoVal
    /\ nwArgs' = NoObj
    /\ nwSigma' = NoVal
    /\ nwI' = 0
    /\ nwEvals' = 0
    /\ nwExit' = "none"
    /\ UNCHANGED <<btVars, bsVars, impVars, gridVars>>

\* calculate_iv() from call to return or exception.
IV_Calculate ==
    /\ ivpc \in {"built", "returned", "raised"}
    /\ \E out \in {calculate_iv(iv)} :
           /\ ivErr' = out.err
           /\ ivResult' = out.ret
           /\ ivpc' = IF out.err = "none" THEN "returned" ELSE "raised"
    /\ ivCall' = "calculate_iv"
    /\ nwArgs' = NoObj
    /\ nwSigma' = NoVal
    /\ nwI' = 0
    /\ nwEvals' = 0
    /\ nwExit' = "none"
    /\ UNCHANGED iv
    /\ UNCHANGED <<btVars, bsVars, impVars, gridVars>>

\* vega_newton(sigma_initial, max_iterations, tolerance) is called: line 45.
NW_Start ==
    /\ ivpc \in {"built", "returned", "raised"}
    /\ \E a \in NewtonArgs :
         /\ nwArgs' = a
         /\ nwSigma' = a.sigma_initial
    /\ nwI' = 0
    /\ nwEvals' = 0
    /\ nwExit' = "none"
    /\ ivpc' = "loop"
    /\ ivCall' = "vega_newton"
    /\ ivErr' = "none"
    /\ ivResult' = NoVal
    /\ UNCHANGED iv
    /\ UNCHANGED <<btVars, bsVars, impVars, gridVars>>

\* One pass of the for loop, lines 47-69.
NW_Iter ==
    /\ ivpc = "loop"
    /\ nwI < nwArgs.max_iterations
    /\ IF PyDivRaises(iv.S, iv.K)
       THEN /\ ivpc' = "raised"
            /\ ivErr' = "ZeroDivisionError"
            /\ UNCHANGED <<ivResult, nwSigma, nwI, nwExit>>
       ELSE /\ \E pass \in {NewtonPass(iv, nwSigma, nwArgs.tolerance)} :
                 /\ nwSigma' = pass.sigma
                 /\ nwExit' = pass.exit
                 /\ IF pass.exit = "none"
                    THEN /\ nwI' = nwI + 1
                         /\ UNCHANGED <<ivpc, ivResult>>
                    ELSE /\ ivpc' = "returned"
                         /\ ivResult' = pass.sigma
                         /\ UNCHANGED nwI
            /\ UNCHANGED ivErr
    /\ nwEvals' = nwEvals + 1
    /\ UNCHANGED <<iv, ivCall, nwArgs>>
    /\ UNCHANGED <<btVars, bsVars, impVars, gridVars>>

\* The loop ran max_iterations passes: return sigma, line 71.
NW_Exhausted ==
    /\ ivpc = "loop"
    /\ nwI >= nwArgs.max_iterations
    /\ ivpc' = "returned"
    /\ ivResult' = nwSigma
    /\ nwExit' = "exhausted"
    /\ UNCHANGED <<iv, ivCall, ivErr, nwArgs, nwSigma, nwI, nwEvals>>
    /\ UNCHANGED <<btVars, bsVars, impVars, gridVars>>

NextIV == IV_Init \/ IV_Calculate \/ NW_Start \/ NW_Iter \/ NW_Exhausted

SpecIV == Init /\ [][NextIV]_vars

\* vega_newton is a sequential loop: a started call keeps running.
SpecIVFair == SpecIV /\ WF_vars(NW_Iter) /\ WF_vars(NW_Exhausted)

\* The pricing core: the two pricers and the solver, one at a time.
NextCore == NextBT \/ NextBS \/ NextIV

SpecCore == Init /\ [][NextCore]_vars


----------------------------------------------------------------------------
(* Module loading *)

\* One top-level statement: its line, the repository module it imports
\* ("" if none, "lib" for a third-party library), and how many pricer or
\* solver objects it builds, pricing or IV calls it makes, print() calls.
St(line, imp, c, m, p) ==
    [line |-> line, imp |-> imp, constructs |-> c, computes |-> m, prints |-> p]

\* models/BlackScholes.py, top level.
BlackScholesBody ==
    << St(1, "lib", 0, 0, 0), St(2, "lib", 0, 0, 0), St(3, "lib", 0, 0, 0),
       St(4, "lib", 0, 0, 0), St(5, "lib", 0, 0, 0),
       St(6, "", 0, 0, 0),      \* warnings.filterwarnings('ignore')
       St(9, "", 0, 0, 0),      \* class BlackScholes
       St(75, "", 1, 0, 0),     \* bs = BlackScholes(...)
       St(76, "", 0, 0, 1),
       St(77, "", 0, 1, 1), St(78, "", 0, 1, 1), St(79, "", 0, 1, 1),
       St(80, "", 0, 1, 1), St(81, "", 0, 1, 1), St(82, "", 0, 1, 1),
       St(83, "", 0, 1, 1), St(84, "", 0, 1, 1), St(85, "", 0, 1, 1),
       St(86, "", 0, 1, 1) >>

\* models/BinomialTree.py, top level.
BinomialTreeBody ==
    << St(1, "lib", 0, 0, 0), St(2, "lib", 0, 0, 0), St(3, "lib", 0, 0, 0),
       St(4, "lib", 0, 0, 0), St(5, "lib", 0, 0, 0),
       St(6, "BlackScholes", 0, 0, 0),
       St(8, "", 0, 0, 0),      \* class BinomialTree
       St(82, "", 1, 0, 0), St(83, "", 1, 0, 0), St(84, "", 1, 0, 0),
       St(86, "", 0, 0, 1),
       St(87, "", 0, 1, 1), St(88, "", 0, 1, 1),
       St(91, "", 0, 1, 0),
       St(92, "", 0, 0, 1), St(93, "", 0, 1, 1),
       St(96, "", 1, 0, 0), St(97, "", 1, 0, 0),
       St(99, "", 0, 1, 1), St(100, "", 0, 1, 1), St(101, "", 0, 1, 1) >>

\* ImpliedVolatility.py lines 108-114: the loop body, run once per strike.
SurfaceLoopBody ==
    << St(109, "", 1, 0, 0), St(110, "", 0, 1, 0), St(111, "", 1, 0, 0),
       St(112, "", 0, 1, 0), St(113, "", 0, 0, 0), St(114, "", 0, 0, 1) >>

\* models/ImpliedVolatility.py, top level; strikes (line 104) has five entries.
ImpliedVolatilityBody ==
    << St(2, "BlackScholes", 0, 0, 0), St(3, "lib", 0, 0, 0), St(4, "lib", 0, 0, 0),
       St(5, "", 0, 0, 0),      \* class ImpliedVolatility
       St(74, "", 0, 0, 1),
       St(77, "", 0, 0, 0),
       St(78, "", 1, 0, 0), St(79, "", 0, 1, 0), St(80, "", 0, 1, 0),
       St(82, "", 0, 0, 1), St(83, "", 0, 0, 1), St(84, "", 0, 0, 1),
       St(87, "", 1, 0, 0), St(88, "", 1, 0, 0),
       St(90, "", 0, 1, 0), St(91, "", 0, 1, 0),
       St(93, "", 0, 0, 1), St(94, "", 0, 0, 1),
       St(97, "", 0, 1, 0), St(98, "", 0, 1, 0),
       St(100, "", 0, 0, 1), St(101, "", 0, 0, 1),
       St(104, "", 0, 0, 0), St(105, "", 0, 0, 0),
       St(107, "", 0, 0, 1) >>
    \o SurfaceLoopBody \o SurfaceLoopBody \o SurfaceLoopBody
    \o SurfaceLoopBody \o SurfaceLoopBody
    \o << St(117, "", 0, 0, 0), St(118, "", 0, 0, 1), St(119, "", 0, 0, 1) >>

CoreModules == {"BlackScholes", "BinomialTree", "ImpliedVolatility"}

Body(m) ==
    CASE m = "BlackScholes" -> BlackScholesBody
      [] m = "BinomialTree" -> BinomialTreeBody
      [] m = "ImpliedVolatility" -> ImpliedVolatilityBody

Top == frames[Len(frames)]

\* The caller imports core module m, not loaded yet; sys.modules gets its
\* entry before the body runs.
Import_Begin(m) ==
    /\ frames = <<>>
    /\ m \notin sysModules
    /\ frames' = << [module |-> m, pc |-> 1] >>
    /\ sysModules' = sysModules \cup {m}
    /\ constructed' = 0
    /\ computed' = 0
    /\ printed' = 0
    /\ UNCHANGED <<btVars, bsVars, ivVars, gridVars>>

\* The next top-level statement of the innermost module body runs.  An
\* import of a repository module not in sys.modules starts that module's
\* body; any other statement has its effects and the body moves on.
Import_Stmt ==
    /\ frames # <<>>
    /\ Top.pc <= Len(Body(Top.module))
    /\ \E st \in {Body(Top.module)[Top.pc]} :
         IF st.imp \in CoreModules /\ st.imp \notin sysModules
         THEN /\ frames' = Append([frames EXCEPT ![Len(frames)].pc = @ + 1],
                                  [module |-> st.imp, pc |-> 1])
              /\ sysModules' = sysModules \cup {st.imp}
              /\ UNCHANGED <<constructed, computed, printed>>
         ELSE /\ frames' = [frames EXCEPT ![Len(frames)].pc = @ + 1]
              /\ constructed' = constructed + st.constructs
              /\ computed' = computed + st.computes
              /\ printed' = printed + st.prints
              /\ UNCHANGED sysModules
    /\ UNCHANGED <<btVars, bsVars, ivVars, gridVars>>

\* The innermost module body has run to its end: the import statement that
\* started it completes.
Import_End ==
    /\ frames # <<>>
    /\ Top.pc > Len(Body(Top.module))
    /\ frames' = SubSeq(frames, 1, Len(frames) - 1)
    /\ UNCHANGED <<sysModules, constructed, computed, printed>>
    /\ UNCHANGED <<btVars, bsVars, ivVars, gridVars>>

NextImport ==
    \/ \E m \in CoreModules : Import_Begin(m)
    \/ Import_Stmt
    \/ Import_End

SpecImport == Init /\ [][NextImport]_vars


----------------------------------------------------------------------------
(* Grid sweeps *)

\* Points per grid axis (main.py uses 20 and 50, utility.py's caller 5).
GridN == 2

\* np.linspace(a, b, n): n evenly spaced points from a to b.
Linspace(a, b, n) ==
    [k \in 0 .. n - 1 |->
        IF n = 1 THEN a
        ELSE FAdd(a, FMul(F(k * SCALE), FDiv(FSub(b, a), F((n - 1) * SCALE))))]

\* np.zeros((n, n)).
Zeros(n) == [c \in (0 .. n - 1) \X (0 .. n - 1) |-> F(0)]

\* Variant of the store that keeps None in the cell, as a list would.  C10
\* does not hold of it.
ArrayStore_kept(x) == x

\* array[i, j] = x on a float array: None is stored as nan.
ArrayStore(x) == IF x = None THEN NaN ELSE x

\* main.py lines 164-165: the cell's query and its calculate_iv().
IVCell(sw, i, j) ==
    calculate_iv(ImpliedVolatility(sw.S, sw.xs[j], sw.ys[i], sw.r,
                                   sw.market_price, sw.option_type, sw.q))

\* utility.py lines 16-20: the cell's pricer (q defaults to 0) and its price.
\* The operands are numpy floats: a zero divisor gives inf or nan, no exception.
PriceCell(sw, i, j) ==
    [err |-> "none",
     ret |-> Once1(LAMBDA b : IF sw.option_type = "call" THEN call_price(b)
                                ELSE put_price(b),
                   BlackScholes(sw.xs[j], sw.K, sw.T, sw.r, sw.ys[i], F(0)))]

Cell(sw, i, j) == IF sw.kind = "iv" THEN IVCell(sw, i, j) ELSE PriceCell(sw, i, j)

\* main.py lines 158-161: the IV surface over expiries x strikes starts.
Grid_IV ==
    /\ gpc \in {"idle", "done", "raised"}
    /\ \E S \in {Dec(100, 1), Dec(50, 1)}, r \in {Dec(5, 100), Dec(0, 1)},
          market_price \in {Dec(1045, 100), Dec(3, 1), Dec(40, 1), Dec(300, 1)},
          option_type \in OptionTypes :
         sweep' = [kind |-> "iv", S |-> S, r |-> r, market_price |-> market_price,
                   option_type |-> option_type, q |-> Dec(0, 1),
                   xs |-> Linspace(FMul(S, Dec(7, 10)), FMul(S, Dec(13, 10)), GridN),
                   ys |-> Linspace(Dec(1, 10), Dec(2, 1), GridN)]
    /\ grid' = Zeros(GridN)
    /\ gi' = 0
    /\ gj' = 0
    /\ gpc' = "sweep"
    /\ written' = {}
    /\ UNCHANGED <<btVars, bsVars, ivVars, impVars>>

\* utility.py lines 9-12: generate_3d_surface_data over volatilities x spots
\* starts, on axes its caller builds with np.linspace (lines 103-105).
Grid_Price ==
    /\ gpc \in {"idle", "done", "raised"}
    /\ \E K \in {Dec(100, 1)}, T \in {Dec(1, 1), Dec(0, 1)}, r \in {Dec(5, 100)},
          option_type \in OptionTypes, slo \in {Dec(80, 1), Dec(100, 1)},
          vhi \in {Dec(4, 10), Dec(8, 10)} :
         sweep' = [kind |-> "price", K |-> K, T |-> T, r |-> r,
                   option_type |-> option_type,
                   xs |-> Linspace(slo, Dec(120, 1), GridN),
                   ys |-> Linspace(Dec(1, 10), vhi, GridN)]
    /\ grid' = Zeros(GridN)
    /\ gi' = 0
    /\ gj' = 0
    /\ gpc' = "sweep"
    /\ written' = {}
    /\ UNCHANGED <<btVars, bsVars, ivVars, impVars>>

\* One pass of the inner loop (main.py lines 163-165, utility.py lines
\* 15-20): the cell is computed and stored, then j, i advance.  An exception
\* from the cell's computation leaves the loops.
Grid_Cell ==
    /\ gpc = "sweep"
    /\ \E out \in {Cell(sweep, gi, gj)} :
         IF out.err # "none"
         THEN /\ gpc' = "raised"
              /\ UNCHANGED <<grid, gi, gj, written>>
         ELSE /\ grid' = [grid EXCEPT ![<<gi, gj>>] = ArrayStore(out.ret)]
              /\ written' = written \cup {<<gi, gj>>}
              /\ IF gj < GridN - 1
                 THEN /\ gj' = gj + 1
                      /\ UNCHANGED <<gi, gpc>>
                 ELSE IF gi < GridN - 1
                 THEN /\ gi' = gi + 1
                      /\ gj' = 0
                      /\ UNCHANGED gpc
                 ELSE /\ gpc' = "done"
                      /\ UNCHANGED <<gi, gj>>
    /\ UNCHANGED sweep
    /\ UNCHANGED <<btVars, bsVars, ivVars, impVars>>

NextGrid == Grid_IV \/ Grid_Price \/ Grid_Cell

SpecGrid == Init /\ [][NextGrid]_vars

\* The loops are straight-line code: a started sweep keeps running.
SpecGridFair == SpecGrid /\ WF_vars(Grid_Cell)


----------------------------------------------------------------------------
(* Properties of the lattice pricer and of construction *)

\* C1: a call lattice with n = 0 is constructed without error and its
\* price() returns exactly max(0, S - K).
C1_ZeroStepCallPriced ==
    (contract # NoObj /\ contract.n = 0 /\ contract.option_type = "call")
        => /\ btErr = "none"
           /\ btpc # "raised"
           /\ btpc = "done" => btResult = PyMax(F(0), FSub(contract.S, contract.K))

Positive(x) == FGt(x, F(0))

\* C2: for one contract with S, K, T, sigma > 0 priced under both exercise
\* types, the American price is greater than or equal to the European price.
C2_AmericanGeEuropean ==
    (/\ prices["american"] # NoVal /\ prices["european"] # NoVal
     /\ Positive(contract.S) /\ Positive(contract.K)
     /\ Positive(contract.T) /\ Positive(contract.sigma))
        => FGe(prices["american"], prices["european"])

\* C5: S <= 0, K <= 0, T <= 0 or sigma <= 0 is rejected with
\* InvalidParameter at construction: every pricer object that exists has
\* S, K, T, sigma > 0 and construction raises nothing else for such inputs.
C5_InvalidParameterRejected ==
    /\ bs # NoObj => Positive(bs.S) /\ Positive(bs.K) /\ Positive(bs.T) /\ Positive(bs.sigma)
    /\ bt # NoObj => Positive(bt.S) /\ Positive(bt.K) /\ Positive(bt.T) /\ Positive(bt.sigma)
    /\ bsErr \in {"none", "InvalidParameter"}
    /\ (contract # NoObj /\ contract.n # 0) => btErr \in {"none", "InvalidParameter"}

\* C6: every numeric value price() returns was computed with 0 <= p <= 1.
C6_PriceOnlyWithProbability ==
    (btpc = "done" /\ IsFin(btResult)) => FGe(bt.p, F(0)) /\ FLe(bt.p, F(SCALE))


----------------------------------------------------------------------------
(* Properties of the implied-volatility solver *)

SignChange(x, y) == (FLt(x, F(0)) /\ FGt(y, F(0))) \/ (FGt(x, F(0)) /\ FLt(y, F(0)))

\* The objective is zero at x, or changes sign between x and a value one
\* resolution step away: x is a root to the root finder's precision.
RootAt(o, x, fx) ==
    \/ FEq(fx, F(0))
    \/ SignChange(fx, Objective(o, FSub(x, F(1))))
    \/ SignChange(fx, Objective(o, FAdd(x, F(1))))

RootToResolution(o, x) == RootAt(o, x, Objective(o, x))

\* |price(x) - market_price| < tolerance.
WithinTolerance(o, x, tolerance) == FLt(FAbs(Objective(o, x)), tolerance)

\* C3, as claimed: every return of a solver method is a volatility whose
\* price meets the market price (within tolerance for vega_newton, to the
\* root finder's precision for calculate_iv) or an explicit no-solution.
C3_RootOrNoSolution ==
    ivpc = "returned"
        => \/ ivResult = None
           \/ IF ivCall = "vega_newton"
              THEN WithinTolerance(iv, ivResult, nwArgs.tolerance)
              ELSE RootToResolution(iv, ivResult)

\* C3, amended: calculate_iv returns None or a root of the objective;
\* vega_newton always returns its last iterate and never a no-solution
\* result; that iterate is within tolerance when the loop was left by the
\* convergence test, and is returned unverified when the loop was left by
\* exhausting max_iterations or by a zero vega.
C3_RootOnlyWhenConverged ==
    /\ (ivpc = "returned" /\ ivCall = "calculate_iv")
          => ivResult = None \/ RootToResolution(iv, ivResult)
    /\ (ivpc = "returned" /\ ivCall = "vega_newton")
          => /\ ivResult # None
             /\ ivResult = nwSigma
             /\ nwExit \in {"converged", "zero_vega", "exhausted"}
             /\ nwExit = "converged"
                   => WithinTolerance(iv, ivResult, nwArgs.tolerance)

\* vega_newton ran at least one pass and returned, by exhaustion or zero
\* vega, an iterate whose price misses the market price.
C3_UnverifiedIterateReturned ==
    /\ ivpc = "returned" /\ ivCall = "vega_newton"
    /\ nwExit \in {"exhausted", "zero_vega"}
    /\ nwEvals >= 1
    /\ ~WithinTolerance(iv, ivResult, nwArgs.tolerance)

\* The objective has a value at both bracket ends (S/K does not raise) and
\* the two values have the same strict sign.
SameSignAtBracket(o) ==
    /\ ~PyDivRaises(o.S, o.K)
    /\ SameStrictSign(Objective(o, BracketLo), Objective(o, BracketHi))

VegaRaw(o, sigma) ==
    Once1(LAMBDA b : FMul(vega(b), F(100 * SCALE)),
          BlackScholes(o.S, o.K, o.T, o.r, sigma, o.q))

\* The iterate sigma meets one of the two stopping tests.
StopsAt(o, sigma, tolerance) ==
    WithinTolerance(o, sigma, tolerance) \/ FEq(VegaRaw(o, sigma), F(0))

\* C8, the passes: a pass on an iterate that meets a stopping test returns
\* that iterate unchanged; a pass on any other iterate goes on to the next.
C8_PassReturnsEvaluatedIterate ==
    (ivpc = "loop" /\ nwI < nwArgs.max_iterations /\ ~PyDivRaises(iv.S, iv.K))
        => IF StopsAt(iv, nwSigma, nwArgs.tolerance)
           THEN ivpc' = "returned" /\ ivResult' = nwSigma /\ nwSigma' = nwSigma
           ELSE ivpc' = "loop" /\ nwI' = nwI + 1

\* C8: vega_newton ends after at most max_iterations pricer evaluations
\* and returns at the first iterate that is within tolerance or has zero
\* vega, returning that iterate itself.
C8_BoundedAndReturnsIterate ==
    /\ [](ivCall = "vega_newton" => nwEvals <= nwArgs.max_iterations)
    /\ [][C8_PassReturnsEvaluatedIterate]_vars
    /\ (ivpc = "loop") ~> (ivpc \in {"returned", "raised"})

\* vega_newton returned by the convergence test after at least one update.
C8_ConvergedAfterUpdate ==
    /\ ivpc = "returned" /\ ivCall = "vega_newton"
    /\ nwExit = "converged"
    /\ nwEvals >= 2
    /\ ivResult # nwArgs.sigma_initial

\* C9: started from sigma_initial > 0, the iterate is > 0 whenever it is
\* used and when it is returned.
C9_IteratePositive ==
    (ivCall = "vega_newton" /\ ivpc \in {"loop", "returned"}
     /\ Positive(nwArgs.sigma_initial))
        => Positive(nwSigma)


----------------------------------------------------------------------------
(* Properties of module loading and of the grid sweeps *)

\* C7: from the start of a core module's import to its end nothing is
\* constructed, computed or printed, in the module or in those it imports.
C7_ImportSideEffectFree == constructed = 0 /\ computed = 0 /\ printed = 0

\* What a float array holds after a value or None is assigned to a cell.
Marked(x) == IF x = None THEN NaN ELSE x

\* C10, the cells: no cell's outcome leaves the loops; every cell assigned
\* so far holds the value computed from its own coordinates and the fixed
\* parameters, NaN where that computation found no solution; the others
\* hold their initial zero; a finished sweep has assigned every cell.
C10_CellsIndependent ==
    /\ gpc # "raised"
    /\ \A c \in written : grid[c] = Marked(Cell(sweep, c[1], c[2]).ret)
    /\ \A c \in DOMAIN grid \ written : grid[c] = F(0)
    /\ gpc = "done" => written = DOMAIN grid

\* C10: in a grid sweep each cell is computed from its own coordinates, a
\* cell without a solution is marked NaN and does not stop the sweep, and
\* the sweep always reaches the last cell with every cell assigned.
C10_SweepCompletes ==
    /\ []C10_CellsIndependent
    /\ (gpc = "sweep") ~> (gpc = "done" /\ written = DOMAIN grid)

\* An IV sweep finished whose first cell is marked NaN and whose last cell
\* holds a volatility.
C10_MarkedCellThenValue ==
    /\ gpc = "done" /\ sweep.kind = "iv"
    /\ IsNaN(grid[<<0, 0>>])
    /\ IsFin(grid[<<GridN - 1, GridN - 1>>])
    /\ Positive(grid[<<GridN - 1, GridN - 1>>])


----------------------------------------------------------------------------
(* Properties of the analytic pricer *)

\* S*e^(-qT) - K*e^(-rT), the right-hand side of put-call parity.
ParityForward(b) ==
    FSub(FMul(b.S, FExp(FMul(FNeg(b.q), b.T))), FMul(b.K, FExp(FMul(FNeg(b.r), b.T))))

\* |call_price() - put_price() - (S*e^(-qT) - K*e^(-rT))| for the two prices
\* the object returned.
ParityGap ==
    FAbs(FSub(FSub(bsPrices["call_price"], bsPrices["put_price"]), ParityForward(bs)))

\* Both prices have been read from an object built from S, K, T, sigma > 0
\* and q >= 0.
ParityCase ==
    /\ bs # NoObj
    /\ bsPrices["call_price"] # NoVal /\ bsPrices["put_price"] # NoVal
    /\ Positive(bs.S) /\ Positive(bs.K) /\ Positive(bs.T) /\ Positive(bs.sigma)
    /\ FGe(bs.q, F(0))

\* C11: for every contract with S, K, T, sigma > 0, q >= 0 and any r, the
\* two prices of one object satisfy put-call parity within floating-point
\* tolerance: two units here, the rounding of the four products that differ
\* between the two sides.
C11_PutCallParity == ParityCase => FLe(ParityGap, F(2))


----------------------------------------------------------------------------
(* The in-place induction of price() against the whole tree *)

RECURSIVE TreeValue(_, _, _)
\* The reference backward induction that stores the whole tree: node (j, i)
\* is the payoff at maturity (j = n), and before it the discounted
\* expectation of the nodes (j+1, i) and (j+1, i+1), maximised with the
\* exercise payoff at S*u^(j-i)*d^i when American.
TreeValue(b, j, i) ==
    IF j = b.n THEN Payoff(b, NodePrice(b, j, i))
    ELSE Once2(LAMBDA up, down :
                 Once1(LAMBDA cont :
                         IF b.exercise_type = "american"
                         THEN PyMax(cont, Payoff(b, NodePrice(b, j, i)))
                         ELSE cont,
                       FMul(b.discount,
                            FAdd(FMul(b.p, up), FMul(FSub(F(SCALE), b.p), down)))),
               TreeValue(b, j + 1, i), TreeValue(b, j + 1, i + 1))

\* C12: price() works on one array updated in place, step j descending and
\* node i ascending.  When V[i] is about to be overwritten in step j, the
\* entries below i hold their step j values and the entries i .. j+1 still
\* hold their step j+1 values, so nothing is read after being overwritten
\* in the same step; after the last step V[0] is the root of the whole
\* tree, and that is what price() returns.
C12_InPlaceEqualsTree ==
    /\ btpc = "loop"
          => /\ \A k \in 0 .. bi - 1 : V[k] = TreeValue(bt, bj, k)
             /\ \A k \in bi .. bj + 1 : V[k] = TreeValue(bt, bj + 1, k)
    /\ btpc = "exit" => V[0] = TreeValue(bt, 0, 0)
    /\ btpc = "done" => btResult = TreeValue(bt, 0, 0)

\* In the middle of a step of an American tree with S, K, T, sigma > 0 and
\* 0 <= p <= 1: V[0] has been overwritten with a value other than the one it
\* held, and V[i], V[i+1] are about to be read.
C12_MidStepOverwritten ==
    /\ btpc = "loop" /\ bi >= 1 /\ bj >= 1
    /\ bt.exercise_type = "american"
    /\ Positive(bt.S) /\ Positive(bt.K) /\ Positive(bt.T) /\ Positive(bt.sigma)
    /\ FGe(bt.p, F(0)) /\ FLe(bt.p, F(SCALE))
    /\ IsFin(V[0]) /\ Positive(V[0])
    /\ V[0] # TreeValue(bt, bj + 1, 0)
    /\ IsFin(V[bi]) /\ IsFin(V[bi + 1])


----------------------------------------------------------------------------
(* Kind and style tags *)

\* The object o with its option_type tag replaced by t.
Retagged(o, t) == [o EXCEPT !.option_type = t]

\* C13, the lattice: a finished price() with an option_type other than
\* 'call' returned the put's price, and one with an exercise_type other
\* than 'american' returned the European price; construction raised nothing
\* for the tag.
C13_LatticeTags ==
    /\ (btpc = "done" /\ bt.option_type # "call")
          => btResult = TreeValue(Retagged(bt, "put"), 0, 0)
    /\ (btpc = "done" /\ bt.exercise_type # "american")
          => btResult = TreeValue([bt EXCEPT !.exercise_type = "european"], 0, 0)
    /\ (contract # NoObj /\ contract.n # 0) => btErr = "none" /\ btpc # "raised"

\* C13, the analytic Greeks: delta, theta and rho called with an
\* option_type other than 'call' returned the put's Greek.
C13_GreekTags ==
    (bspc = "returned" /\ bsCall[1] \in {"delta", "theta", "rho"} /\ bsCall[2] # "call")
        => bsResult = Method(bs, bsCall[1], "put")

\* C13, calculate_iv: for a query with an option_type other than 'call' it
\* ended as it ends for the same query tagged 'put'.
C13_SolverTags ==
    (ivCall = "calculate_iv" /\ ivpc \in {"returned", "raised"} /\ iv.option_type # "call")
        => \E out \in {calculate_iv(Retagged(iv, "put"))} :
              ivErr = out.err /\ ivResult = out.ret

\* C13, vega_newton: a pass for a query with an option_type other than
\* 'call' is the pass of the same query tagged 'put', and raises nothing.
C13_NewtonPassTags ==
    (ivpc = "loop" /\ nwI < nwArgs.max_iterations /\ iv.option_type # "call"
     /\ ~PyDivRaises(iv.S, iv.K))
        => \E pass \in {NewtonPass(Retagged(iv, "put"), nwSigma, nwArgs.tolerance)} :
              /\ nwSigma' = pass.sigma
              /\ nwExit' = pass.exit
              /\ ivErr' = "none"

\* C13: no core operation rejects an unrecognised tag; every option_type
\* other than exactly 'call' is priced as a put by BinomialTree.price, by
\* delta, theta and rho and by both solver methods, and every exercise_type
\* other than exactly 'american' is priced as European.
C13_UnrecognisedTagsPriced ==
    /\ [](C13_LatticeTags /\ C13_GreekTags /\ C13_SolverTags)
    /\ [][C13_NewtonPassTags]_vars

\* price() returned for a contract tagged 'Call' and 'American': a number
\* that is not the call's price nor the American put's.
C13_CapitalisedTagsPriced ==
    /\ btpc = "done"
    /\ bt.option_type = "Call" /\ bt.exercise_type = "American"
    /\ IsFin(btResult) /\ Positive(btResult)
    /\ btResult # TreeValue(Retagged(bt, "call"), 0, 0)
    /\ btResult # TreeValue([Retagged(bt, "put") EXCEPT !.exercise_type = "american"], 0, 0)

============================================================================
